---- MODULE Spec2Model ----
(***************************************************************************)
(* Model of the neural_testbed leaderboard problem sweeps                  *)
(* (leaderboard/sweep.py) and of the sgmcmc agent sweep                    *)
(* (agents/factories/sweeps/testbed/sgmcmc.py).                            *)
(*                                                                         *)
(* Strings are sequences of one-character strings, so that building a      *)
(* problem id with an f-string is a computation.  A Python dict is a       *)
(* sequence of <<key, value>> pairs in insertion order.  The float         *)
(* hyperparameters are written in fixed units: noise_std, temperature,     *)
(* prior_variance and momentum_decay in hundredths, learning_rate in       *)
(* ten-thousandths.                                                        *)
(***************************************************************************)
EXTENDS Integers, Sequences, FiniteSets, TLC

(* ---------------------------- bounds ----------------------------------- *)
\* Largest num_seed a caller passes explicitly to a full sweep.
MaxNumSeed == 2
\* How far below zero the num_seed a caller passes explicitly goes.
NegativeNumSeeds == 1
\* Largest initial_seed a caller passes explicitly to a full sweep.
MaxInitialSeed == 1
\* Longest sequence of dictionaries handed to _merge_without_overwrite.
MaxSweeps == 3

(* ---------------------------- strings ---------------------------------- *)
SEPARATOR == << "/" >>

DigitChar == << "0", "1", "2", "3", "4", "5", "6", "7", "8", "9" >>

\* IntStr that keeps only the last digit.
IntStr_LastDigit(i) == << DigitChar[(i % 10) + 1] >>

\* str(i) of a non-negative int, as the f-string formats it.
RECURSIVE IntStr(_)
IntStr(i) ==
    IF i < 10 THEN << DigitChar[i + 1] >>
    ELSE IntStr(i \div 10) \o << DigitChar[(i % 10) + 1] >>

Name_regression ==
    << "r", "e", "g", "r", "e", "s", "s", "i", "o", "n" >>
Name_regression_test ==
    << "r", "e", "g", "r", "e", "s", "s", "i", "o", "n", "_", "t", "e", "s", "t" >>
Name_enn_paper ==
    << "e", "n", "n", "_", "p", "a", "p", "e", "r" >>
Name_enn_paper_test ==
    << "e", "n", "n", "_", "p", "a", "p", "e", "r", "_", "t", "e", "s", "t" >>
Name_classification ==
    << "c", "l", "a", "s", "s", "i", "f", "i", "c", "a", "t", "i", "o", "n" >>
Name_classification_test ==
    << "c", "l", "a", "s", "s", "i", "f", "i", "c", "a", "t", "i", "o", "n", "_", "t", "e", "s", "t" >>
Name_classification_2d ==
    << "c", "l", "a", "s", "s", "i", "f", "i", "c", "a", "t", "i", "o", "n", "_", "2", "d" >>
Name_classification_2d_test ==
    << "c", "l", "a", "s", "s", "i", "f", "i", "c", "a", "t", "i", "o", "n", "_", "2", "d", "_", "t", "e", "s", "t" >>

\* The three sweep functions that run the nested loops.
FullSweeps == {"regression_sweep", "classification_sweep", "classification_2d_sweep"}

\* The sweeps that filter a full sweep of one seed per configuration.
TestSweeps == {"regression_test_sweep", "classification_test_sweep",
               "classification_2d_test_sweep", "enn_paper_test_sweep"}

SweepFns == FullSweeps \cup TestSweeps \cup {"enn_paper_sweep"}

\* SweepName where a test sweep reuses the name of the sweep it reduces.
SweepName_SharedNames(fn) ==
    CASE fn \in {"regression_sweep", "regression_test_sweep"} -> Name_regression
      [] fn \in {"enn_paper_sweep", "enn_paper_test_sweep"} -> Name_enn_paper
      [] fn \in {"classification_sweep", "classification_test_sweep"} ->
           Name_classification
      [] fn \in {"classification_2d_sweep", "classification_2d_test_sweep"} ->
           Name_classification_2d

\* The sweep name each function puts in front of SEPARATOR.
SweepName(fn) ==
    CASE fn = "regression_sweep" -> Name_regression
      [] fn = "regression_test_sweep" -> Name_regression_test
      [] fn = "enn_paper_sweep" -> Name_enn_paper
      [] fn = "enn_paper_test_sweep" -> Name_enn_paper_test
      [] fn = "classification_sweep" -> Name_classification
      [] fn = "classification_test_sweep" -> Name_classification_test
      [] fn = "classification_2d_sweep" -> Name_classification_2d
      [] fn = "classification_2d_test_sweep" -> Name_classification_2d_test

\* f'{sweep_name}{SEPARATOR}{i}'
ProblemId(fn, i) == SweepName(fn) \o SEPARATOR \o IntStr(i)

(* ---------------------------- dicts ------------------------------------ *)
DictKeys(d) == [j \in 1..Len(d) |-> d[j][1]]

KeySet(d) == {d[j][1] : j \in 1..Len(d)}

HasKey(d, k) == \E j \in 1..Len(d) : d[j][1] = k

DictGet(d, k) == d[CHOOSE j \in 1..Len(d) : d[j][1] = k][2]

\* d.update(e): the keys of d keep their positions and take the value e
\* gives them; the keys only e has follow in the order of e.
DictUpdate(d, e) ==
    [j \in 1..Len(d) |->
        IF HasKey(e, d[j][1]) THEN << d[j][1], DictGet(e, d[j][1]) >> ELSE d[j]]
    \o SelectSeq(e, LAMBDA item : ~HasKey(d, item[1]))

\* dict(items): a key stands where it first occurs and holds the value of
\* its last occurrence.
DictFromItems(items) ==
    LET n == Len(items)
        firsts == SelectSeq([j \in 1..n |-> j],
                            LAMBDA j : \A i \in 1..(j - 1) : items[i][1] # items[j][1])
        last(key) == CHOOSE j \in 1..n :
                        /\ items[j][1] = key
                        /\ \A i \in (j + 1)..n : items[i][1] # key
    IN [m \in 1..Len(firsts) |->
           << items[firsts[m]][1], items[last(items[firsts[m]][1])][2] >>]

\* {f'{name}{SEPARATOR}{i}': v for i, v in enumerate(configs)}
EnumerateDict(fn, configs) ==
    DictFromItems([j \in 1..Len(configs) |-> << ProblemId(fn, j - 1), configs[j] >>])

(* ---------------------------- configs ---------------------------------- *)
\* ProblemConfig(prior_knowledge, seed) with the dataclass defaults.
ProblemConfig(prior_knowledge, seed) ==
    [prior_knowledge |-> prior_knowledge,
     seed |-> seed,
     logit_ctor |-> "None",
     test_distribution |-> "make_gaussian_sampler",
     num_test_seeds |-> 1000,
     num_enn_samples |-> 1000,
     num_test_cache |-> 1000,
     epistemic_only |-> FALSE]

\* dataclasses.replace(problem_config, epistemic_only=True)
ReplaceEpistemicOnly(problem_config) ==
    [problem_config EXCEPT !.epistemic_only = TRUE]

(* ---------------------------- nested loops ----------------------------- *)
Regression_input_dim == << 1, 10, 100 >>
Regression_data_ratio == << 1, 10, 100 >>
Regression_noise_std == << 1, 10, 100 >>

Classification_tau == << 1, 10 >>
Classification_input_dim == << 2, 10, 100 >>
Classification_data_ratio == << 1, 10, 100, 1000 >>
Classification_temperature == << 1, 10, 50 >>

Classification2d_tau == << 1, 10 >>
Classification2d_num_train == << 1, 3, 10, 30, 100, 300, 1000 >>
Classification2d_temperature == << 1, 10, 50 >>

\* Length of each nested for loop, outermost first; the last is range(num_seed).
LoopSizes(fn, num_seed) ==
    CASE fn = "regression_sweep" ->
           << Len(Regression_input_dim), Len(Regression_data_ratio),
              Len(Regression_noise_std), num_seed >>
      [] fn = "classification_sweep" ->
           << Len(Classification_tau), Len(Classification_input_dim),
              Len(Classification_data_ratio), Len(Classification_temperature),
              num_seed >>
      [] fn = "classification_2d_sweep" ->
           << Len(Classification2d_tau), Len(Classification2d_num_train),
              Len(Classification2d_temperature), num_seed >>

\* ResetsSeedPerTau where every sweep assigns seed = initial_seed inside its
\* outermost loop.
ResetsSeedPerTau_Always(fn) == TRUE

\* The classification sweeps assign seed = initial_seed inside the tau loop.
ResetsSeedPerTau(fn) == fn \in {"classification_sweep", "classification_2d_sweep"}

\* Position of the next iteration of the nested loops; << >> when they are over.
RECURSIVE Advance(_, _, _)
Advance(idx, sizes, level) ==
    IF level = 0 THEN << >>
    ELSE IF idx[level] < sizes[level]
         THEN [l \in 1..Len(idx) |->
                 IF l < level THEN idx[l]
                 ELSE IF l = level THEN idx[l] + 1 ELSE 1]
         ELSE Advance(idx, sizes, level - 1)

\* Position of the first iteration; << >> when some loop is empty, as
\* range(num_seed) is for every num_seed <= 0.
FirstIteration(sizes) ==
    IF \E l \in 1..Len(sizes) : sizes[l] <= 0 THEN << >>
    ELSE [l \in 1..Len(sizes) |-> 1]

\* The ProblemConfig the loop body appends at position idx with this seed.
BodyConfig(fn, idx, seed) ==
    CASE fn = "regression_sweep" ->
           LET input_dim == Regression_input_dim[idx[1]]
               data_ratio == Regression_data_ratio[idx[2]]
               noise_std == Regression_noise_std[idx[3]]
               num_train == data_ratio * input_dim
               prior_knowledge ==
                   [input_dim |-> input_dim, num_train |-> num_train,
                    noise_std |-> noise_std, num_classes |-> 1,
                    tau |-> 1, layers |-> 1]
           IN [ProblemConfig(prior_knowledge, seed)
                 EXCEPT !.num_enn_samples = 100]
      [] fn = "classification_sweep" ->
           LET tau == Classification_tau[idx[1]]
               input_dim == Classification_input_dim[idx[2]]
               data_ratio == Classification_data_ratio[idx[3]]
               temperature == Classification_temperature[idx[4]]
               num_train == data_ratio * input_dim
               prior_knowledge ==
                   [input_dim |-> input_dim, num_train |-> num_train,
                    num_classes |-> 2, tau |-> tau, layers |-> 2,
                    temperature |-> temperature]
           IN [ProblemConfig(prior_knowledge, seed)
                 EXCEPT !.test_distribution = "make_polyadic_sampler"]
      [] fn = "classification_2d_sweep" ->
           LET tau == Classification2d_tau[idx[1]]
               num_train == Classification2d_num_train[idx[2]]
               temperature == Classification2d_temperature[idx[3]]
               prior_knowledge ==
                   [input_dim |-> 2, num_train |-> num_train,
                    num_classes |-> 2, tau |-> tau, layers |-> 2,
                    temperature |-> temperature]
           IN ProblemConfig(prior_knowledge, seed)

\* Locals of a full sweep before its first loop iteration.
LoopStart(fn, num_seed, initial_seed) ==
    [idx |-> FirstIteration(LoopSizes(fn, num_seed)),
     seed |-> initial_seed,
     configs |-> << >>]

\* LoopStep without seed += 1.
LoopStep_NoIncrement(fn, num_seed, initial_seed, fr) ==
    LET sizes == LoopSizes(fn, num_seed)
    IN [idx |-> Advance(fr.idx, sizes, Len(sizes)),
        seed |-> fr.seed,
        configs |-> Append(fr.configs, BodyConfig(fn, fr.idx, fr.seed))]

\* One iteration of the innermost loop: seed += 1, build, append; then move
\* to the next iteration, where entering a new tau iteration of a
\* classification sweep assigns seed = initial_seed again.
LoopStep(fn, num_seed, initial_seed, fr) ==
    LET seed1 == fr.seed + 1
        sizes == LoopSizes(fn, num_seed)
        nxt == Advance(fr.idx, sizes, Len(sizes))
    IN [idx |-> nxt,
        seed |-> IF /\ ResetsSeedPerTau(fn)
                    /\ nxt # << >>
                    /\ nxt[1] # fr.idx[1]
                 THEN initial_seed ELSE seed1,
        configs |-> Append(fr.configs, BodyConfig(fn, fr.idx, seed1))]

DictValues(d) == [j \in 1..Len(d) |-> d[j][2]]

(* ---------------------------- reduced sweeps --------------------------- *)
DefaultNumSeed(fn) ==
    CASE fn = "regression_sweep" -> 10
      [] fn = "classification_sweep" -> 5
      [] fn = "classification_2d_sweep" -> 10

DefaultInitialSeed == 0

\* The full sweep a derived sweep function calls.
InnerSweep(fn) ==
    CASE fn \in {"regression_test_sweep", "enn_paper_sweep",
                 "enn_paper_test_sweep"} -> "regression_sweep"
      [] fn = "classification_test_sweep" -> "classification_sweep"
      [] fn = "classification_2d_test_sweep" -> "classification_2d_sweep"
      [] fn \in FullSweeps -> fn

\* num_seed of that call: the test sweeps pass num_seed=1, enn_paper_sweep
\* calls regression_sweep() with its defaults.
InnerNumSeed(fn) ==
    IF fn \in TestSweeps THEN 1 ELSE DefaultNumSeed(InnerSweep(fn))

\* The lambda each test sweep hands to _filter_unique_configs.
FilterFn(fn, x) ==
    CASE fn = "regression_test_sweep" ->
           /\ x.prior_knowledge.noise_std = 10
           /\ x.prior_knowledge.input_dim = 10
           /\ x.prior_knowledge.num_train = 10
           /\ x.prior_knowledge.tau = 1
      [] fn = "classification_test_sweep" ->
           /\ x.prior_knowledge.temperature = 1
           /\ x.prior_knowledge.tau = 1
           /\ x.prior_knowledge.input_dim = 2
      [] fn = "classification_2d_test_sweep" ->
           /\ x.prior_knowledge.temperature = 1
           /\ x.prior_knowledge.tau = 1
      [] fn = "enn_paper_test_sweep" ->
           x.prior_knowledge.noise_std = 10

\* One iteration of the loop of _filter_unique_configs over configs[pos].
FilterStep(fn, cfgs, fl) ==
    LET problem_config == cfgs[fl.pos]
        keep == FilterFn(fn, problem_config)
                  /\ problem_config \notin fl.observed_configs
    IN [pos |-> fl.pos + 1,
        observed_configs |->
            IF keep THEN fl.observed_configs \cup {problem_config}
            ELSE fl.observed_configs,
        new_configs |->
            IF keep THEN Append(fl.new_configs, problem_config)
            ELSE fl.new_configs]

FilterStart == [pos |-> 1, observed_configs |-> {}, new_configs |-> << >>]

\* DerivedDict where every derived sweep replaces epistemic_only.
DerivedDict_AlwaysEpistemic(fn, cfgs) ==
    EnumerateDict(fn, [j \in 1..Len(cfgs) |-> ReplaceEpistemicOnly(cfgs[j])])

\* The dictionary a derived sweep builds from the configs it kept: the
\* enn_paper sweeps replace epistemic_only in every value.
DerivedDict(fn, cfgs) ==
    IF fn \in {"enn_paper_sweep", "enn_paper_test_sweep"}
    THEN EnumerateDict(fn, [j \in 1..Len(cfgs) |-> ReplaceEpistemicOnly(cfgs[j])])
    ELSE EnumerateDict(fn, cfgs)

(* ---------------------------- merge ------------------------------------ *)
\* MergeStep without the check for shared keys.
MergeStep_NoCheck(swps, mg) ==
    [k |-> mg.k + 1,
     settings |-> DictUpdate(mg.settings, swps[mg.k]),
     raised |-> FALSE]

\* One iteration of the loop of _merge_without_overwrite over sweeps[k].
MergeStep(swps, mg) ==
    LET sweep == swps[mg.k]
    IN IF KeySet(sweep) \cap KeySet(mg.settings) # {}
       THEN [mg EXCEPT !.raised = TRUE]
       ELSE [k |-> mg.k + 1,
             settings |-> DictUpdate(mg.settings, sweep),
             raised |-> FALSE]

MergeStart == [k |-> 1, settings |-> << >>, raised |-> FALSE]

\* The argument list of the module-level call that builds SETTINGS.
SettingsOrder ==
    << "regression_sweep", "regression_test_sweep", "enn_paper_sweep",
       "enn_paper_test_sweep", "classification_sweep",
       "classification_test_sweep", "classification_2d_sweep",
       "classification_2d_test_sweep" >>

\* The module-level tuples, in the order they are assigned.
ExportOrder ==
    << "regression_sweep", "regression_test_sweep", "enn_paper_sweep",
       "enn_paper_test_sweep", "classification_2d_sweep",
       "classification_2d_test_sweep", "classification_sweep",
       "classification_test_sweep" >>

ExportName(fn) ==
    CASE fn = "regression_sweep" -> "REGRESSION"
      [] fn = "regression_test_sweep" -> "REGRESSION_TEST"
      [] fn = "enn_paper_sweep" -> "ENN_PAPER"
      [] fn = "enn_paper_test_sweep" -> "ENN_PAPER_TEST"
      [] fn = "classification_2d_sweep" -> "CLASSIFICATION_2D"
      [] fn = "classification_2d_test_sweep" -> "CLASSIFICATION_2D_TEST"
      [] fn = "classification_sweep" -> "CLASSIFICATION"
      [] fn = "classification_test_sweep" -> "CLASSIFICATION_TEST"

(* ---------------------------- sgmcmc sweeps ---------------------------- *)
Sgmcmc_learning_rate == << 5, 10, 50 >>
Sgmcmc_prior_variance == << 5, 10, 50, 100, 200, 1000 >>

SgmcmcSizes == << Len(Sgmcmc_learning_rate), Len(Sgmcmc_prior_variance) >>

SgmcmcFns == {"sgld_sweep", "momentum_sgld_sweep"}

\* SgmcmcConfig where momentum_sgld_sweep passes the arguments of sgld_sweep.
SgmcmcConfig_NoMomentum(fn, idx) ==
    [learning_rate |-> Sgmcmc_learning_rate[idx[1]],
     prior_variance |-> Sgmcmc_prior_variance[idx[2]],
     adaptive_prior_variance |-> TRUE]

\* The SGMCMCConfig the loop body of sgld_sweep or momentum_sgld_sweep appends;
\* only the arguments the call passes are recorded.
SgmcmcConfig(fn, idx) ==
    LET learning_rate == Sgmcmc_learning_rate[idx[1]]
        prior_variance == Sgmcmc_prior_variance[idx[2]]
    IN IF fn = "sgld_sweep"
       THEN [learning_rate |-> learning_rate,
             prior_variance |-> prior_variance,
             adaptive_prior_variance |-> TRUE]
       ELSE [learning_rate |-> learning_rate,
             prior_variance |-> prior_variance,
             adaptive_prior_variance |-> TRUE,
             alg_temperature |-> 1,
             momentum_decay |-> 90]

\* PaperAgent(default=SGMCMCConfig(), ctor=make_agent, sweep=combined_sweep):
\* the functions are recorded by name.
PaperAgent ==
    [default |-> "SGMCMCConfig()", ctor |-> "make_agent", sweep |-> "combined_sweep"]

(* ---------------------------- inputs ----------------------------------- *)
\* Dictionaries a caller hands to _merge_without_overwrite: at most two
\* problem ids, each with one of two configs.
SampleKeys == {ProblemId("regression_sweep", 0), ProblemId("regression_test_sweep", 0)}

SampleConfigs ==
    {BodyConfig("regression_sweep", << 1, 1, 1, 1 >>, sd) : sd \in 1..2}

SampleDicts ==
    {<< >>}
    \cup {<< << k1, v1 >> >> : k1 \in SampleKeys, v1 \in SampleConfigs}
    \cup {d \in [1..2 -> SampleKeys \X SampleConfigs] : d[1][1] # d[2][1]}

SampleSweeps == UNION {[1..n -> SampleDicts] : n \in 0..MaxSweeps}

(* ---------------------------- state ------------------------------------ *)
VARIABLES
    entry,             \* the function called from outside, or "module" for the import
    pc,                \* where the execution stands
    call,              \* the sweep function being executed
    num_seed,          \* arguments of the running full sweep
    initial_seed,
    idx,               \* position in the nested loops
    seed,              \* locals of the running full sweep
    configs,
    full_configs,      \* local of a test sweep
    pos,               \* locals of _filter_unique_configs
    observed_configs,
    new_configs,
    sweeps,            \* argument of _merge_without_overwrite
    k,                 \* position in its loop
    settings,          \* its local
    stmt,              \* module-level calls evaluated so far
    globals,           \* module namespace of sweep.py
    sweep,             \* local list of sgld_sweep / momentum_sgld_sweep
    first,             \* first operand of the sum in combined_sweep
    ret                \* value returned by the last completed call

vars == << entry, pc, call, num_seed, initial_seed, idx, seed, configs,
           full_configs, pos, observed_configs, new_configs, sweeps, k,
           settings, stmt, globals, sweep, first, ret >>

loopVars == << num_seed, initial_seed, idx, seed, configs >>
filterVars == << full_configs, pos, observed_configs, new_configs >>
mergeVars == << sweeps, k, settings >>
moduleVars == << stmt, globals >>
sgmcmcVars == << sweep, first >>

LoopIdle ==
    /\ num_seed = 0 /\ initial_seed = 0
    /\ idx = << >> /\ seed = 0 /\ configs = << >>
FilterIdle ==
    /\ full_configs = << >> /\ pos = 1
    /\ observed_configs = {} /\ new_configs = << >>
MergeIdle == sweeps = << >> /\ k = 1 /\ settings = << >>
ModuleIdle == stmt = 0 /\ globals = << >>
SgmcmcIdle == sweep = << >> /\ first = << >>

\* A sweep function is called: the full sweep it runs starts its loops.
InitSweepCall ==
    /\ entry \in SweepFns
    /\ call = entry
    /\ pc = "loop"
    /\ IF entry \in FullSweeps
       THEN /\ num_seed \in (0 - NegativeNumSeeds)..MaxNumSeed
            /\ initial_seed \in 0..MaxInitialSeed
       ELSE /\ num_seed = InnerNumSeed(entry)
            /\ initial_seed = DefaultInitialSeed
    /\ idx = LoopStart(InnerSweep(entry), num_seed, initial_seed).idx
    /\ seed = LoopStart(InnerSweep(entry), num_seed, initial_seed).seed
    /\ configs = LoopStart(InnerSweep(entry), num_seed, initial_seed).configs
    /\ FilterIdle /\ MergeIdle /\ ModuleIdle /\ SgmcmcIdle
    /\ ret = << >>

\* _merge_without_overwrite is called on some sequence of dictionaries.
InitMerge ==
    /\ entry = "_merge_without_overwrite"
    /\ call = "none"
    /\ pc = "merge"
    /\ sweeps \in SampleSweeps
    /\ k = MergeStart.k
    /\ settings = MergeStart.settings
    /\ LoopIdle /\ FilterIdle /\ ModuleIdle /\ SgmcmcIdle
    /\ ret = << >>

\* sweep.py is imported: its module-level statements run in order.
InitModule ==
    /\ entry = "module"
    /\ call = "none"
    /\ pc = "module"
    /\ LoopIdle /\ FilterIdle /\ MergeIdle /\ ModuleIdle /\ SgmcmcIdle
    /\ ret = << >>

\* A function of the sgmcmc sweep module is called.
InitSgmcmc ==
    /\ entry \in SgmcmcFns \cup {"combined_sweep", "paper_agent"}
    /\ call = IF entry \in SgmcmcFns THEN entry
              ELSE IF entry = "combined_sweep" THEN "sgld_sweep" ELSE "none"
    /\ pc = IF entry = "paper_agent" THEN "paper_agent" ELSE "sgmcmc"
    /\ idx = IF entry = "paper_agent" THEN << >> ELSE FirstIteration(SgmcmcSizes)
    /\ num_seed = 0 /\ initial_seed = 0 /\ seed = 0 /\ configs = << >>
    /\ FilterIdle /\ MergeIdle /\ ModuleIdle /\ SgmcmcIdle
    /\ ret = << >>

Init == InitSweepCall \/ InitMerge \/ InitModule \/ InitSgmcmc

(* ---------------------------- actions ---------------------------------- *)
\* Where a completed sweep call goes back to.
AfterCall == IF entry = "module" THEN "bind" ELSE "done"

\* One iteration of the innermost loop of a full sweep.
LoopIteration ==
    /\ pc = "loop"
    /\ idx # << >>
    /\ LET fr == LoopStep(InnerSweep(call), num_seed, initial_seed,
                          [idx |-> idx, seed |-> seed, configs |-> configs])
       IN /\ idx' = fr.idx
          /\ seed' = fr.seed
          /\ configs' = fr.configs
    /\ UNCHANGED << entry, pc, call, num_seed, initial_seed, filterVars,
                    mergeVars, moduleVars, sgmcmcVars, ret >>

\* The loops are over: the full sweep returns its dictionary.  A full sweep
\* called directly is done; enn_paper_sweep rebuilds the dictionary from the
\* values; a test sweep starts filtering the values.
SweepReturn ==
    /\ pc = "loop"
    /\ idx = << >>
    /\ LET returned == EnumerateDict(InnerSweep(call), configs)
       IN IF call \in FullSweeps
          THEN /\ ret' = returned
               /\ pc' = AfterCall
               /\ UNCHANGED filterVars
          ELSE IF call = "enn_paper_sweep"
          THEN /\ ret' = DerivedDict(call, DictValues(returned))
               /\ pc' = AfterCall
               /\ UNCHANGED filterVars
          ELSE /\ full_configs' = DictValues(returned)
               /\ pos' = FilterStart.pos
               /\ observed_configs' = FilterStart.observed_configs
               /\ new_configs' = FilterStart.new_configs
               /\ pc' = "filter"
               /\ UNCHANGED ret
    /\ UNCHANGED << entry, call, loopVars, mergeVars, moduleVars, sgmcmcVars >>

\* One iteration of the loop of _filter_unique_configs.
FilterIteration ==
    /\ pc = "filter"
    /\ pos <= Len(full_configs)
    /\ LET fl == FilterStep(call, full_configs,
                            [pos |-> pos, observed_configs |-> observed_configs,
                             new_configs |-> new_configs])
       IN /\ pos' = fl.pos
          /\ observed_configs' = fl.observed_configs
          /\ new_configs' = fl.new_configs
    /\ UNCHANGED << entry, pc, call, loopVars, full_configs, mergeVars,
                    moduleVars, sgmcmcVars, ret >>

\* _filter_unique_configs returns and the test sweep builds its dictionary.
FilterReturn ==
    /\ pc = "filter"
    /\ pos > Len(full_configs)
    /\ ret' = DerivedDict(call, new_configs)
    /\ pc' = AfterCall
    /\ UNCHANGED << entry, call, loopVars, filterVars, mergeVars, moduleVars,
                    sgmcmcVars >>

\* One iteration of the loop of _merge_without_overwrite: KeyError when the
\* sweep shares a key with settings, settings.update(sweep) otherwise.
MergeIteration ==
    /\ pc = "merge"
    /\ k <= Len(sweeps)
    /\ LET mg == MergeStep(sweeps, [k |-> k, settings |-> settings,
                                    raised |-> FALSE])
       IN /\ k' = mg.k
          /\ settings' = mg.settings
          /\ pc' = IF mg.raised THEN "raised" ELSE "merge"
          /\ ret' = IF mg.raised THEN "KeyError" ELSE ret
    /\ UNCHANGED << entry, call, loopVars, filterVars, sweeps, moduleVars,
                    sgmcmcVars >>

\* _merge_without_overwrite returns settings; at module level the result is
\* bound to SETTINGS.
MergeReturn ==
    /\ pc = "merge"
    /\ k > Len(sweeps)
    /\ ret' = settings
    /\ IF entry = "module"
       THEN /\ globals' = DictUpdate(globals, << << "SETTINGS", settings >> >>)
            /\ pc' = "module"
       ELSE /\ pc' = "done"
            /\ UNCHANGED globals
    /\ UNCHANGED << entry, call, loopVars, filterVars, mergeVars, stmt,
                    sgmcmcVars >>

\* The sweep function the next module-level call evaluates: the eight
\* arguments of the SETTINGS list first, then the eight exported tuples.
ModuleCallee(n) ==
    IF n <= Len(SettingsOrder) THEN SettingsOrder[n]
    ELSE ExportOrder[n - Len(SettingsOrder)]

\* The module calls the next sweep function with no argument.
ModuleCall ==
    /\ pc = "module"
    /\ stmt < Len(SettingsOrder) + Len(ExportOrder)
    /\ LET callee == ModuleCallee(stmt + 1)
           n == InnerNumSeed(callee)
           fr == LoopStart(InnerSweep(callee), n, DefaultInitialSeed)
       IN /\ call' = callee
          /\ num_seed' = n
          /\ initial_seed' = DefaultInitialSeed
          /\ idx' = fr.idx
          /\ seed' = fr.seed
          /\ configs' = fr.configs
    /\ pc' = "loop"
    /\ UNCHANGED << entry, filterVars, mergeVars, moduleVars, sgmcmcVars, ret >>

\* The value of the call is used: as the next element of the list handed to
\* _merge_without_overwrite, which is called once the list is complete, or as
\* the exported tuple of its keys.
ModuleBind ==
    /\ pc = "bind"
    /\ stmt' = stmt + 1
    /\ IF stmt < Len(SettingsOrder)
       THEN /\ sweeps' = Append(sweeps, ret)
            /\ k' = MergeStart.k
            /\ settings' = MergeStart.settings
            /\ pc' = IF stmt + 1 = Len(SettingsOrder) THEN "merge" ELSE "module"
            /\ UNCHANGED globals
       ELSE /\ globals' = DictUpdate(globals,
                              << << ExportName(call), DictKeys(ret) >> >>)
            /\ pc' = IF stmt + 1 = Len(SettingsOrder) + Len(ExportOrder)
                     THEN "done" ELSE "module"
            /\ UNCHANGED mergeVars
    /\ UNCHANGED << entry, call, loopVars, filterVars, sgmcmcVars, ret >>

\* One iteration of the inner loop of sgld_sweep or momentum_sgld_sweep.
SgmcmcIteration ==
    /\ pc = "sgmcmc"
    /\ idx # << >>
    /\ sweep' = Append(sweep, SgmcmcConfig(call, idx))
    /\ idx' = Advance(idx, SgmcmcSizes, Len(SgmcmcSizes))
    /\ UNCHANGED << entry, pc, call, num_seed, initial_seed, seed, configs,
                    filterVars, mergeVars, moduleVars, first, ret >>

\* sgld_sweep or momentum_sgld_sweep returns tuple(sweep); combined_sweep
\* calls momentum_sgld_sweep after sgld_sweep and returns the sum.
SgmcmcReturn ==
    /\ pc = "sgmcmc"
    /\ idx = << >>
    /\ IF entry = "combined_sweep" /\ call = "sgld_sweep"
       THEN /\ first' = sweep
            /\ call' = "momentum_sgld_sweep"
            /\ sweep' = << >>
            /\ idx' = FirstIteration(SgmcmcSizes)
            /\ UNCHANGED << pc, ret >>
       ELSE /\ ret' = IF entry = "combined_sweep" THEN first \o sweep ELSE sweep
            /\ pc' = "done"
            /\ UNCHANGED << call, sweep, first, idx >>
    /\ UNCHANGED << entry, num_seed, initial_seed, seed, configs, filterVars,
                    mergeVars, moduleVars >>

\* paper_agent() builds the PaperAgent.
PaperAgentReturn ==
    /\ pc = "paper_agent"
    /\ ret' = PaperAgent
    /\ pc' = "done"
    /\ UNCHANGED << entry, call, loopVars, filterVars, mergeVars, moduleVars,
                    sgmcmcVars >>

Next ==
    \/ LoopIteration
    \/ SweepReturn
    \/ FilterIteration
    \/ FilterReturn
    \/ MergeIteration
    \/ MergeReturn
    \/ ModuleCall
    \/ ModuleBind
    \/ SgmcmcIteration
    \/ SgmcmcReturn
    \/ PaperAgentReturn

Spec == Init /\ [][Next]_vars

(* ======================================================================= *)
(* Properties                                                              *)
(* ======================================================================= *)
Global(name) == DictGet(globals, name)

\* Position of a sweep function in the list handed to _merge_without_overwrite.
SettingsPos(fn) == CHOOSE p \in 1..Len(SettingsOrder) : SettingsOrder[p] = fn

\* The import reached its last statement.
ModuleDone == entry = "module" /\ pc = "done"

\* A sweep function has just returned its dictionary in ret.
SweepReturned ==
    \/ entry \in SweepFns /\ pc = "done"
    \/ entry = "module" /\ pc = "bind"

(* ---------------------------- C1 --------------------------------------- *)
\* C1: importing sweep.py never raises KeyError; the key sets of the eight
\* merged sweeps are pairwise disjoint; SETTINGS has one entry per problem of
\* every sweep, 1341 in all; every id of every exported tuple is a key of
\* SETTINGS and SETTINGS[id] is the ProblemConfig the id's own sweep gives it.
C1_SettingsComplete ==
    entry = "module" =>
      /\ pc # "raised"
      /\ pc = "module" =>
           \A a \in 1..Len(sweeps) : \A b \in (a + 1)..Len(sweeps) :
              KeySet(sweeps[a]) \cap KeySet(sweeps[b]) = {}
      /\ (pc \in {"module", "done"} /\ HasKey(globals, "SETTINGS")) =>
           /\ Len(sweeps) = 8
           /\ Len(Global("SETTINGS")) = 270 + 1 + 270 + 9 + 360 + 4 + 420 + 7
           /\ Cardinality(KeySet(Global("SETTINGS"))) = 1341
           /\ \A a \in 1..8 : \A i \in 1..Len(sweeps[a]) :
                /\ HasKey(Global("SETTINGS"), sweeps[a][i][1])
                /\ DictGet(Global("SETTINGS"), sweeps[a][i][1]) = sweeps[a][i][2]
           /\ \A fn \in SweepFns :
                HasKey(globals, ExportName(fn)) =>
                  LET ids == Global(ExportName(fn))
                      own == sweeps[SettingsPos(fn)]
                  IN /\ Len(ids) = Len(own)
                     /\ \A i \in 1..Len(ids) :
                          /\ HasKey(Global("SETTINGS"), ids[i])
                          /\ HasKey(own, ids[i])
                          /\ DictGet(Global("SETTINGS"), ids[i])
                               = DictGet(own, ids[i])
      /\ ModuleDone =>
           \A fn \in SweepFns : HasKey(globals, ExportName(fn))

\* SETTINGS holds the 1341 problems and REGRESSION, the first exported
\* tuple, holds the 270 ids of the regression sweep.
C1_Witness ==
    /\ entry = "module"
    /\ pc = "module"
    /\ stmt = 9
    /\ Len(Global("SETTINGS")) = 1341
    /\ Len(Global("REGRESSION")) = 270

(* ---------------------------- C2 --------------------------------------- *)
DigitValue(c) ==
    CASE c = "0" -> 0 [] c = "1" -> 1 [] c = "2" -> 2 [] c = "3" -> 3
      [] c = "4" -> 4 [] c = "5" -> 5 [] c = "6" -> 6 [] c = "7" -> 7
      [] c = "8" -> 8 [] c = "9" -> 9

IsDigit(c) == c \in {"0", "1", "2", "3", "4", "5", "6", "7", "8", "9"}

RECURSIVE DecimalValue(_)
DecimalValue(digits) ==
    IF digits = << >> THEN 0
    ELSE 10 * DecimalValue(SubSeq(digits, 1, Len(digits) - 1))
         + DigitValue(digits[Len(digits)])

\* key reads <name>/<i>: name, one "/", and the decimal numeral of i.
IsIdOf(key, name, i) ==
    \E p \in 1..Len(key) :
       LET digits == SubSeq(key, p + 1, Len(key))
       IN /\ key[p] = "/"
          /\ SubSeq(key, 1, p - 1) = name
          /\ digits # << >>
          /\ \A q \in 1..Len(digits) : IsDigit(digits[q])
          /\ Len(digits) > 1 => digits[1] # "0"
          /\ DecimalValue(digits) = i

\* The list of configs a sweep function enumerates into its dictionary.
Generated ==
    IF call \in FullSweeps THEN configs
    ELSE IF call = "enn_paper_sweep"
    THEN [i \in 1..Len(configs) |-> [configs[i] EXCEPT !.epistemic_only = TRUE]]
    ELSE IF call = "enn_paper_test_sweep"
    THEN [i \in 1..Len(new_configs) |-> [new_configs[i] EXCEPT !.epistemic_only = TRUE]]
    ELSE new_configs

\* C2: every problem id a sweep function produces reads <sweep_name>/<index>
\* with the separator "/"; a sweep of n problems has the indexes 0..n-1, each
\* once, and index i holds the i-th config generated, in dictionary order.
C2_ProblemIds ==
    SweepReturned =>
      /\ Len(ret) = Len(Generated)
      /\ \A i \in 1..Len(ret) :
           /\ IsIdOf(ret[i][1], SweepName(call), i - 1)
           /\ ret[i][2] = Generated[i]
      /\ \A i \in 1..Len(ret) : \A i2 \in (i + 1)..Len(ret) : ret[i][1] # ret[i2][1]

\* A sweep with three-digit indexes has returned, and a filtered one.
C2_Witness ==
    /\ SweepReturned
    /\ call = "classification_sweep"
    /\ Len(ret) = 144
    /\ ret[144][1] = Name_classification \o << "/", "1", "4", "3" >>

(* ---------------------------- C3 --------------------------------------- *)
\* C3: for a number of seeds num_seed >= 0,
\* regression_sweep(num_seed, initial_seed) returns 27 * num_seed
\* problems, num_seed for each combination of input_dim, data_ratio and
\* noise_std, with num_train = data_ratio * input_dim, tau = 1 and
\* num_classes = 1; after every loop step seed is initial_seed plus the number
\* of configs appended; the problem at index i has seed initial_seed + i + 1,
\* so the seeds are distinct and increase with the index.
C3_RegressionSweep ==
    /\ (pc = "loop" /\ InnerSweep(call) = "regression_sweep")
          => seed = initial_seed + Len(configs)
    /\ (SweepReturned /\ call = "regression_sweep" /\ num_seed >= 0) =>
          /\ Len(ret) = 27 * num_seed
          /\ \A input_dim \in {1, 10, 100} : \A data_ratio \in {1, 10, 100} :
               \A noise_std \in {1, 10, 100} :
                 Cardinality({i \in 1..Len(ret) :
                     /\ ret[i][2].prior_knowledge.input_dim = input_dim
                     /\ ret[i][2].prior_knowledge.num_train = data_ratio * input_dim
                     /\ ret[i][2].prior_knowledge.noise_std = noise_std
                     /\ ret[i][2].prior_knowledge.tau = 1
                     /\ ret[i][2].prior_knowledge.num_classes = 1}) = num_seed
          /\ \A i \in 1..Len(ret) : ret[i][2].seed = initial_seed + (i - 1) + 1
          /\ \A i \in 1..Len(ret) : \A i2 \in (i + 1)..Len(ret) :
               ret[i][2].seed < ret[i2][2].seed

\* regression_sweep(num_seed=2, initial_seed=1) has returned its 54 problems.
C3_Witness ==
    /\ entry = "regression_sweep" /\ pc = "done"
    /\ num_seed = 2 /\ initial_seed = 1
    /\ Len(ret) = 54
    /\ ret[54][2].seed = 55

(* ---------------------------- C4 --------------------------------------- *)
\* C4: for a number of seeds num_seed >= 0,
\* classification_sweep(num_seed, initial_seed) returns 72 * num_seed
\* problems; each combination of tau, input_dim, data_ratio and temperature
\* occurs in num_seed problems that carry num_seed distinct seeds, with
\* num_train = data_ratio * input_dim, num_classes = 2, layers = 2 and the
\* polyadic test distribution; no two problems of the sweep are equal.
C4_ClassificationSweep ==
    (SweepReturned /\ call = "classification_sweep" /\ num_seed >= 0) =>
       /\ Len(ret) = 72 * num_seed
       /\ \A tau \in {1, 10} : \A input_dim \in {2, 10, 100} :
            \A data_ratio \in {1, 10, 100, 1000} : \A temperature \in {1, 10, 50} :
              LET hits == {i \in 1..Len(ret) :
                             /\ ret[i][2].prior_knowledge.tau = tau
                             /\ ret[i][2].prior_knowledge.input_dim = input_dim
                             /\ ret[i][2].prior_knowledge.num_train
                                  = data_ratio * input_dim
                             /\ ret[i][2].prior_knowledge.temperature = temperature}
              IN /\ Cardinality(hits) = num_seed
                 /\ Cardinality({ret[i][2].seed : i \in hits}) = num_seed
       /\ \A i \in 1..Len(ret) :
            /\ ret[i][2].prior_knowledge.num_classes = 2
            /\ ret[i][2].prior_knowledge.layers = 2
            /\ ret[i][2].test_distribution = "make_polyadic_sampler"
       /\ \A i \in 1..Len(ret) : \A i2 \in (i + 1)..Len(ret) :
            ret[i][2] # ret[i2][2]

\* classification_sweep(num_seed=2) has returned: the seed counter started
\* again for tau = 10, so the two halves carry the same seeds.
C4_Witness ==
    /\ entry = "classification_sweep" /\ pc = "done"
    /\ num_seed = 2
    /\ Len(ret) = 144
    /\ ret[1][2].seed = ret[73][2].seed
    /\ ret[1][2].seed # ret[2][2].seed

(* ---------------------------- C5 --------------------------------------- *)
\* The test sweeps that filter a full sweep without changing its values, each
\* with the full sweep it reduces.
ReducedPairs ==
    {<< "regression_test_sweep", "regression_sweep" >>,
     << "classification_test_sweep", "classification_sweep" >>,
     << "classification_2d_test_sweep", "classification_2d_sweep" >>}

ValueSet(d) == {d[i][2] : i \in 1..Len(d)}

WithoutSeed(problem_config) == [problem_config EXCEPT !.seed = 0]

\* A test sweep called for the SETTINGS list has just returned; the full
\* sweep it reduces, called with its defaults, is already in the list.
TestSweepReturned(pair) ==
    /\ entry = "module"
    /\ pc = "bind"
    /\ stmt < Len(SettingsOrder)
    /\ call = pair[1]

\* C5 as stated: every ProblemConfig of a test sweep, seed included, is a
\* value of the full sweep called with its default arguments.
C5_TestProblemsAreFullProblems ==
    \A pair \in ReducedPairs :
       TestSweepReturned(pair) =>
          ValueSet(ret) \subseteq ValueSet(sweeps[SettingsPos(pair[2])])

\* C5 amended: every ProblemConfig of a test sweep agrees with a problem of
\* the full sweep called with its default arguments in every field but the
\* seed.
C5_TestConfigsAreFullConfigs ==
    \A pair \in ReducedPairs :
       TestSweepReturned(pair) =>
          {WithoutSeed(v) : v \in ValueSet(ret)}
             \subseteq
          {WithoutSeed(v) : v \in ValueSet(sweeps[SettingsPos(pair[2])])}

\* regression_test_sweep() has returned: regression_test/0 has seed 11, the
\* problems of the full regression sweep with the same hyperparameters start
\* at seed 101, and its problem of seed 11 has other hyperparameters.
C5_Witness ==
    /\ TestSweepReturned(<< "regression_test_sweep", "regression_sweep" >>)
    /\ Len(ret) = 1
    /\ ret[1][2].seed = 11
    /\ sweeps[1][101][2] = [ret[1][2] EXCEPT !.seed = 101]
    /\ sweeps[1][11][2].seed = 11
    /\ sweeps[1][11][2].prior_knowledge # ret[1][2].prior_knowledge

(* ---------------------------- C7 --------------------------------------- *)
MergeCalled == entry = "_merge_without_overwrite"

\* Sweep number a has a key that an earlier sweep of the sequence has.
Clash(a) ==
    \E b \in 1..(a - 1) : KeySet(sweeps[b]) \cap KeySet(sweeps[a]) # {}

\* The items of the first n sweeps, one sweep after the other.
RECURSIVE Concat(_)
Concat(n) == IF n = 0 THEN << >> ELSE Concat(n - 1) \o sweeps[n]

C7_State ==
    MergeCalled =>
      /\ pc \in {"merge", "raised", "done"}
      /\ pc = "merge" =>
           /\ \A a \in 1..(k - 1) : ~Clash(a)
           /\ settings = Concat(k - 1)
      /\ pc = "raised" =>
           /\ ret = "KeyError"
           /\ Clash(k)
           /\ \A a \in 1..(k - 1) : ~Clash(a)
           /\ settings = Concat(k - 1)
      /\ pc = "done" =>
           /\ \A a \in 1..Len(sweeps) : ~Clash(a)
           /\ KeySet(ret) = UNION {KeySet(sweeps[a]) : a \in 1..Len(sweeps)}
           /\ Len(ret) = Cardinality(KeySet(ret))
           /\ \A a \in 1..Len(sweeps) : \A i \in 1..Len(sweeps[a]) :
                DictGet(ret, sweeps[a][i][1]) = sweeps[a][i][2]

C7_Step ==
    MergeCalled =>
      /\ sweeps' = sweeps
      /\ Len(settings') >= Len(settings)
      /\ SubSeq(settings', 1, Len(settings)) = settings

\* C7: _merge_without_overwrite raises KeyError exactly when a sweep of the
\* sequence has a key that an earlier sweep has; the check comes before any
\* key of the sweep is added, so no key is overwritten; when it returns, the
\* keys of the result are the union of the input keys and each maps to the
\* value of the sweep that has it; the inputs are never modified.
C7_MergeWithoutOverwrite == [] C7_State /\ [][C7_Step]_vars

\* The third dictionary is the first one again: KeyError, with the two keys
\* of the first two dictionaries merged and nothing overwritten.
C7_Witness ==
    /\ MergeCalled
    /\ pc = "raised"
    /\ k = 3
    /\ sweeps[3] = sweeps[1]
    /\ Len(settings) = 2

(* ---------------------------- C8 --------------------------------------- *)
\* The 18 configs of one half, learning_rate varying slowest.
ExpectedSgld ==
    [i \in 1..18 |->
       [learning_rate |-> << 5, 10, 50 >>[((i - 1) \div 6) + 1],
        prior_variance |-> << 5, 10, 50, 100, 200, 1000 >>[((i - 1) % 6) + 1],
        adaptive_prior_variance |-> TRUE]]

\* The arguments momentum_sgld_sweep passes to SGMCMCConfig.
MomentumFields ==
    {"learning_rate", "prior_variance", "adaptive_prior_variance",
     "alg_temperature", "momentum_decay"}

\* C8: combined_sweep() is 36 configs, the 18 of sgld_sweep() in their order
\* and then the 18 of momentum_sgld_sweep() in theirs; in each half every pair
\* of learning_rate and prior_variance occurs once, learning_rate varying
\* slowest; every config has adaptive_prior_variance=True and every config of
\* the second half alg_temperature=1 and momentum_decay=0.9;
\* paper_agent().sweep is combined_sweep.
C8_CombinedSweep ==
    /\ (entry = "sgld_sweep" /\ pc = "done") => ret = ExpectedSgld
    /\ (entry = "combined_sweep" /\ pc = "done") =>
          /\ Len(ret) = 36
          /\ SubSeq(ret, 1, 18) = ExpectedSgld
          /\ \A i \in 1..18 :
               /\ DOMAIN ret[18 + i] = MomentumFields
               /\ ret[18 + i].learning_rate = ExpectedSgld[i].learning_rate
               /\ ret[18 + i].prior_variance = ExpectedSgld[i].prior_variance
               /\ ret[18 + i].adaptive_prior_variance = TRUE
               /\ ret[18 + i].alg_temperature = 1
               /\ ret[18 + i].momentum_decay = 90
          /\ \A half \in {0, 18} :
               \A lr \in {5, 10, 50} : \A pv \in {5, 10, 50, 100, 200, 1000} :
                 Cardinality({i \in 1..18 :
                     /\ ret[half + i].learning_rate = lr
                     /\ ret[half + i].prior_variance = pv}) = 1
    /\ (entry = "momentum_sgld_sweep" /\ pc = "done") =>
          /\ Len(ret) = 18
          /\ \A i \in 1..18 :
               /\ DOMAIN ret[i] = MomentumFields
               /\ ret[i].alg_temperature = 1
               /\ ret[i].momentum_decay = 90
    /\ (entry = "paper_agent" /\ pc = "done") => ret.sweep = "combined_sweep"

\* combined_sweep() has returned its 36 configs.
C8_Witness ==
    /\ entry = "combined_sweep" /\ pc = "done"
    /\ Len(ret) = 36
    /\ ret[19].learning_rate = 5
    /\ ret[36].prior_variance = 1000

====
